---- MODULE Spec2Model ----
(***************************************************************************)
(* Model of MinecraftJarCache (backend/api/views/minecraft.py): the jar    *)
(* cache engine that resolves an origin URL per platform, checks the S3    *)
(* bucket, downloads the artifact to /tmp/jar_cache, uploads it and        *)
(* returns the S3 key, plus the pre-signed URL issuance.                   *)
(*                                                                         *)
(* Strings that the code builds with f-strings are sequences of tokens, so *)
(* that key construction and the "/" -> "_" replacement are computed.      *)
(* One engine instance is shared by the request workers; every external    *)
(* call (origin HTTP request, S3 call, local file syscall) is one step.    *)
(***************************************************************************)
EXTENDS Integers, Sequences, FiniteSets, TLC

\* ---------------------------------------------------------------- bounds
\* Total number of public calls (get_jar_s3_key, get_jar_direct_url) started.
MaxCalls == 2
\* Number of 8192-byte chunks the origin streams for one artifact.
NChunks == 2

\* Concurrent request workers sharing the engine instance.
Workers == {"w1", "w2"}

\* ---------------------------------------------------------------- inputs
\* Platform arguments a caller may pass (mixed case and an unsupported one).
PlatformArgs == {"vanilla", "Paper", "forge", "NeoForge", "bukkit"}
\* Version arguments.
VersionArgs == {<<"1.20.1">>}
\* Build arguments: the default and a literal build number.
BuildArgs == {<<"latest">>, <<"7">>}

\* ------------------------------------------------------------ pure helpers
\* str.lower() on the platform strings in use.
Lower(s) ==
    CASE s = "Paper" -> "paper"
      [] s = "NeoForge" -> "neoforge"
      [] s = "Forge" -> "forge"
      [] s = "Vanilla" -> "vanilla"
      [] s = "VANILLA" -> "vanilla"
      [] OTHER -> s

DigitTok == <<"0", "1", "2", "3", "4", "5", "6", "7", "8", "9">>

RECURSIVE IntToStr(_)
\* str(n) for a non-negative JSON integer, as a sequence of digit tokens.
IntToStr(n) ==
    IF n < 10 THEN <<DigitTok[n + 1]>>
    ELSE IntToStr(n \div 10) \o <<DigitTok[(n % 10) + 1]>>

\* A build is either a JSON integer from the builds list or the caller's string.
JInt(n) == [t |-> "int", v |-> n]
JStr(x) == [t |-> "str", v |-> x]

\* f"{target_build}": an integer is formatted in decimal, a string is kept.
FmtBuild(b) == IF b.t = "int" THEN IntToStr(b.v) ELSE b.v

\* s3_key.replace("/", "_")
ReplaceSlash(k) == [i \in 1..Len(k) |-> IF k[i] = "/" THEN "_" ELSE k[i]]

\* self.local_cache_dir / s3_key.replace("/", "_")
LocalTempPath(k) == <<"/tmp/jar_cache", "/">> \o ReplaceSlash(k)

PAPERMC_API == <<"https://api.papermc.io/v2/projects/paper/">>
FORGE_MAVEN_BASE == <<"https://maven.minecraftforge.net/net/minecraftforge/forge/">>
NEOFORGE_MAVEN_BASE == <<"https://maven.neoforged.net/releases/net/neoforged/neoforge/">>

\* s3_key = f"vanilla/{version}/server.jar"
VanillaKey(version) == <<"vanilla", "/">> \o version \o <<"/", "server.jar">>

\* Mutation of the build choice: the caller's build string is always kept.
TargetBuild_verbatim(builds, build) == JStr(build)

\* target_build = version_data['builds'][-1] if build == 'latest' else build
TargetBuild(builds, build) ==
    IF build = <<"latest">> THEN JInt(builds[Len(builds)]) ELSE JStr(build)

\* s3_key = f"paper/{mc_version}/build-{target_build}.jar"
PaperKey(mc_version, target_build) ==
    <<"paper", "/">> \o mc_version \o <<"/", "build-">> \o FmtBuild(target_build) \o <<".jar">>

\* download_url = f"{PAPERMC_API}versions/{mc_version}/builds/{target_build}/download"
PaperUrl(mc_version, target_build) ==
    PAPERMC_API \o <<"versions", "/">> \o mc_version \o <<"/", "builds", "/">>
        \o FmtBuild(target_build) \o <<"/", "download">>

\* jar_name = f"{platform.lower()}-{version}-installer.jar"
MavenJarName(platform, version) == <<Lower(platform), "-">> \o version \o <<"-installer.jar">>

\* Mutation of the Maven key: the platform name is used as passed, not lower-cased.
MavenKey_as_passed(platform, version) ==
    <<platform, "/">> \o version \o <<"/">> \o MavenJarName(platform, version)

\* s3_key = f"{platform.lower()}/{version}/{jar_name}"
MavenKey(platform, version) ==
    <<Lower(platform), "/">> \o version \o <<"/">> \o MavenJarName(platform, version)

\* download_url = f"{maven_base_url}{version}/{jar_name}"
MavenUrl(platform, version, base) == base \o version \o <<"/">> \o MavenJarName(platform, version)

\* -------------------------------------------------- origin and store outcomes
\* Entries of the manifest's "versions" list; a field may be missing.
EntryOk == [id |-> <<"1.20.1">>, url |-> <<"detail-1.20.1.json">>]
EntryOther == [id |-> <<"1.19.4">>, url |-> <<"detail-1.19.4.json">>]
EntryNoId == [url |-> <<"detail-x.json">>]
EntryNoUrl == [id |-> <<"1.20.1">>]

\* JSON bodies the manifest URL may answer with.
ManifestDocs ==
    { [versions |-> <<EntryOther, EntryOk>>],
      [versions |-> <<EntryOther>>],
      [versions |-> <<EntryNoId, EntryOk>>],
      [versions |-> <<EntryNoUrl>>],
      [latest |-> <<"1.20.1">>] }

SERVER_URL == <<"https://piston-data.mojang.com/server.jar">>

\* JSON bodies a version-detail URL may answer with.
DetailDocs ==
    { [downloads |-> [server |-> [url |-> SERVER_URL]]],
      [downloads |-> [client |-> [url |-> <<"client.jar">>]]],
      [id |-> <<"1.20.1">>] }

\* JSON bodies the Paper builds endpoint may answer with (any HTTP status).
PaperDocs ==
    { [builds |-> <<5, 7>>],
      [builds |-> <<>>],
      [error |-> <<"Version not found.">>] }

\* Outcomes of an HTTP request that raise requests.exceptions.RequestException:
\* from requests.get (ConnectionError, and Timeout, handled by the same clause)
\* or from raise_for_status() (HTTPError on a non-2xx status).
HttpFailures == {"connection_error", "http_error"}

\* Outcomes of an S3 call that raise botocore ClientError.
\* head_object answers 404 for a missing key and e.g. 403 when access is denied.
StoreErrors == {"access_denied"}

\* ------------------------------------------------------------------ state
VARIABLES
    pc,                \* worker -> position in the call it runs
    req,               \* worker -> arguments of the call it runs
    s3_key,            \* worker -> local variable s3_key (<<>> before it is set)
    url,               \* worker -> local variable holding the download URL
    written,           \* worker -> chunks written through its open file
    fdLive,            \* worker -> its open file is still the one at the path
    result,            \* worker -> how the call ended
    log,               \* worker -> external calls made by the current call, in order
    hit0,              \* worker -> the request's key was in the bucket when the call began
    objects,           \* bucket: key -> chunks of the stored object
    localFiles,        \* /tmp/jar_cache: path -> chunks in the file
    version_manifest,  \* self.version_manifest: <<>> for None, else <<doc>>
    calls,             \* number of public calls started
    downloads,         \* key -> artifact download requests answered with a body
    uploads,           \* key -> successful upload_file calls
    bucket_exists      \* the bucket named self.bucket_name exists in the store

vars == <<pc, req, s3_key, url, written, fdLive, result, log, hit0, objects,
          localFiles, version_manifest, calls, downloads, uploads, bucket_exists>>

NoReq == [op |-> "none", platform |-> "", version |-> <<>>, build |-> <<>>, key |-> <<>>]
NoResult == [kind |-> "none", val |-> <<>>, why |-> ""]
\* return s3_key
RetKey(k, why) == [kind |-> "key", val |-> k, why |-> why]
\* return None
RetNone(why) == [kind |-> "null", val |-> <<>>, why |-> why]
\* an exception leaves the public method
Raised(exc, why) == [kind |-> "raised", val |-> <<exc>>, why |-> why]
\* return url / return ""
RetUrl(u) == [kind |-> "url", val |-> u, why |-> "presign"]

\* f[k], or 0 when no event for k has been counted
Count(f, k) == IF k \in DOMAIN f THEN f[k] ELSE 0
Incr(f, k) == [x \in DOMAIN f \cup {k} |-> IF x = k THEN Count(f, k) + 1 ELSE f[x]]
\* the file or object at k is created or replaced with content c
Put(f, k, c) == [x \in DOMAIN f \cup {k} |-> IF x = k THEN c ELSE f[x]]
\* the file at k is unlinked
Unlink(f, k) == [x \in DOMAIN f \ {k} |-> f[x]]

Init ==
    /\ pc = [w \in Workers |-> "idle"]
    /\ req = [w \in Workers |-> NoReq]
    /\ s3_key = [w \in Workers |-> <<>>]
    /\ url = [w \in Workers |-> <<>>]
    /\ written = [w \in Workers |-> 0]
    /\ fdLive = [w \in Workers |-> FALSE]
    /\ result = [w \in Workers |-> NoResult]
    /\ log = [w \in Workers |-> <<>>]
    /\ hit0 = [w \in Workers |-> FALSE]
    /\ objects = <<>>
    /\ localFiles = <<>>
    /\ version_manifest = <<>>
    /\ calls = 0
    /\ downloads = <<>>
    /\ uploads = <<>>
    /\ bucket_exists = TRUE

\* ------------------------------------------------------- per-worker updates
\* One entry of a call's trace: what was asked, how it ended, the JSON body if any.
Ev(call, outcome, body) == [call |-> call, outcome |-> outcome, body |-> body]

\* The path of the transient file of worker w's key.
PathOf(w) == LocalTempPath(s3_key[w])

\* Worker w's public call ends with result r.
Finish(w, r) ==
    /\ pc' = [pc EXCEPT ![w] = "done"]
    /\ result' = [result EXCEPT ![w] = r]

\* Worker w moves on to position p.
Goto(w, p) ==
    /\ pc' = [pc EXCEPT ![w] = p]
    /\ UNCHANGED result

Logged(w, call, outcome) == log' = [log EXCEPT ![w] = Append(@, Ev(call, outcome, <<>>))]
LoggedDoc(w, call, doc) == log' = [log EXCEPT ![w] = Append(@, Ev(call, "ok", <<doc>>))]

\* os.remove(path): the name goes away; files other workers hold open at that
\* path live on without a name.
Removed(path) ==
    /\ localFiles' = Unlink(localFiles, path)
    /\ fdLive' = [x \in Workers |->
                    IF pc[x] = "stream" /\ PathOf(x) = path THEN FALSE ELSE fdLive[x]]

\* ------------------------------------------------------------ get_jar_s3_key
SupportedPlatforms == {"vanilla", "paper", "forge", "neoforge"}

\* Mutation of get_jar_s3_key: the final else falls into the Forge branch.
get_jar_s3_key_else_forge(platform) ==
    LET p == Lower(platform) IN
    IF p = "vanilla" THEN "vanilla"
    ELSE IF p = "paper" THEN "paper"
    ELSE IF p = "neoforge" THEN "neoforge"
    ELSE "forge"

\* The if/elif chain of get_jar_s3_key: the branch taken for a platform argument.
get_jar_s3_key(platform) ==
    LET p == Lower(platform) IN
    IF p = "vanilla" THEN "vanilla"
    ELSE IF p = "paper" THEN "paper"
    ELSE IF p = "forge" THEN "forge"
    ELSE IF p = "neoforge" THEN "neoforge"
    ELSE "unsupported"

\* The keys a request names before any origin answer is known (none for an
\* unsupported platform, none for Paper with build "latest").
RequestKeys(platform, version, build) ==
    LET p == Lower(platform) IN
    IF p = "vanilla" THEN {VanillaKey(version)}
    ELSE IF p = "paper" THEN (IF build = <<"latest">> THEN {} ELSE {PaperKey(version, JStr(build))})
    ELSE IF p \in {"forge", "neoforge"} THEN {MavenKey(p, version)}
    ELSE {}

\* self.version_manifest.get('versions', [])
ManifestVersions(doc) == IF "versions" \in DOMAIN doc THEN doc.versions ELSE <<>>

\* Mutation of the manifest lookup: the first entry is taken whatever its id.
FindVersion_first(entries, version, i) == IF Len(entries) = 0 THEN 0 ELSE 1

RECURSIVE FindVersion(_, _, _)
\* next((v for v in versions if v['id'] == version), None), scanning from i:
\* the index of the first match, 0 for None, -1 when v['id'] raises KeyError.
FindVersion(entries, version, i) ==
    IF i > Len(entries) THEN 0
    ELSE IF "id" \notin DOMAIN entries[i] THEN -1
    ELSE IF entries[i].id = version THEN i
    ELSE FindVersion(entries, version, i + 1)

\* _get_vanilla_jar from the manifest lookup up to the detail request.
VanillaLookup(w, doc, version) ==
    LET entries == ManifestVersions(doc)
        idx == FindVersion(entries, version, 1)
    IN  /\ UNCHANGED <<s3_key, url>>
        /\ IF idx = -1 THEN Finish(w, Raised("KeyError", "manifest_entry_without_id"))
           ELSE IF idx = 0 THEN Finish(w, RetNone("version_not_found"))
           ELSE IF "url" \notin DOMAIN entries[idx]
                THEN Finish(w, RetNone("metadata_malformed"))
           ELSE Goto(w, "detail")

\* Mutation of the manifest cache test: the manifest is requested on every lookup.
manifest_is_none_always(m) == TRUE

\* if self.version_manifest is None
manifest_is_none(m) == m = <<>>

\* get_jar_s3_key(platform, version, build) up to its first external call.
Dispatch(w) ==
    /\ pc[w] = "idle"
    /\ UNCHANGED bucket_exists
    /\ \E p \in PlatformArgs, v \in VersionArgs :
       \E b \in (IF Lower(p) = "paper" THEN BuildArgs ELSE {<<"latest">>}) :
        /\ req' = [req EXCEPT ![w] = [op |-> "get_jar_s3_key", platform |-> p,
                                      version |-> v, build |-> b, key |-> <<>>]]
        /\ hit0' = [hit0 EXCEPT ![w] = RequestKeys(p, v, b) \cap DOMAIN objects # {}]
        /\ LET branch == get_jar_s3_key(p) IN
           CASE branch = "vanilla" ->
                  IF manifest_is_none(version_manifest)
                  THEN /\ Goto(w, "manifest")
                       /\ log' = [log EXCEPT ![w] = <<>>]
                       /\ UNCHANGED <<s3_key, url>>
                  ELSE /\ VanillaLookup(w, version_manifest[1], v)
                       /\ log' = [log EXCEPT ![w] =
                                    <<Ev("manifest_cached", "ok", version_manifest)>>]
             [] branch = "paper" ->
                  /\ Goto(w, "builds")
                  /\ log' = [log EXCEPT ![w] = <<>>]
                  /\ UNCHANGED <<s3_key, url>>
             [] branch = "forge" ->
                  /\ s3_key' = [s3_key EXCEPT ![w] = MavenKey("Forge", v)]
                  /\ url' = [url EXCEPT ![w] = MavenUrl("Forge", v, FORGE_MAVEN_BASE)]
                  /\ Goto(w, "head")
                  /\ log' = [log EXCEPT ![w] = <<>>]
             [] branch = "neoforge" ->
                  /\ s3_key' = [s3_key EXCEPT ![w] = MavenKey("NeoForge", v)]
                  /\ url' = [url EXCEPT ![w] = MavenUrl("NeoForge", v, NEOFORGE_MAVEN_BASE)]
                  /\ Goto(w, "head")
                  /\ log' = [log EXCEPT ![w] = <<>>]
             [] OTHER ->
                  /\ Finish(w, RetNone("unsupported_platform"))
                  /\ log' = [log EXCEPT ![w] = <<>>]
                  /\ UNCHANGED <<s3_key, url>>
    /\ UNCHANGED <<written, fdLive, objects, localFiles, version_manifest, downloads, uploads>>

\* A get_jar_s3_key call is started while the call budget lasts.
Call(w) ==
    /\ calls < MaxCalls
    /\ calls' = calls + 1
    /\ Dispatch(w)

\* response.json() on a body that is not JSON raises requests' JSONDecodeError,
\* a RequestException (requests >= 2.27), so the except clause returns None.
NotJson(w, why) == Finish(w, RetNone(why))

\* _get_vanilla_jar: requests.get(MOJANG_VERSION_MANIFEST) and what follows it.
ManifestFetch(w) ==
    /\ pc[w] = "manifest"
    /\ UNCHANGED bucket_exists
    /\ UNCHANGED <<req, written, fdLive, hit0, objects, localFiles, calls, downloads, uploads>>
    /\ \/ \E f \in HttpFailures :
            /\ Logged(w, "manifest", f)
            /\ Finish(w, RetNone("manifest_fetch_failed"))
            /\ UNCHANGED <<s3_key, url, version_manifest>>
       \/ /\ Logged(w, "manifest", "not_json")
          /\ NotJson(w, "manifest_not_json")
          /\ UNCHANGED <<s3_key, url, version_manifest>>
       \/ \E doc \in ManifestDocs :
            /\ LoggedDoc(w, "manifest", doc)
            /\ version_manifest' = <<doc>>
            /\ VanillaLookup(w, doc, req[w].version)

\* version_details['downloads']['server']['url'] is present
HasServerUrl(d) ==
    /\ "downloads" \in DOMAIN d
    /\ "server" \in DOMAIN d.downloads
    /\ "url" \in DOMAIN d.downloads.server

\* _get_vanilla_jar: requests.get(version_info['url']) up to _download_and_cache.
DetailFetch(w) ==
    /\ pc[w] = "detail"
    /\ UNCHANGED bucket_exists
    /\ UNCHANGED <<req, written, fdLive, hit0, objects, localFiles, version_manifest,
                   calls, downloads, uploads>>
    /\ \/ \E f \in HttpFailures :
            /\ Logged(w, "detail", f)
            /\ Finish(w, RetNone("detail_fetch_failed"))
            /\ UNCHANGED <<s3_key, url>>
       \/ /\ Logged(w, "detail", "not_json")
          /\ NotJson(w, "detail_not_json")
          /\ UNCHANGED <<s3_key, url>>
       \/ \E d \in DetailDocs :
            /\ LoggedDoc(w, "detail", d)
            /\ IF HasServerUrl(d)
               THEN /\ url' = [url EXCEPT ![w] = d.downloads.server.url]
                    /\ s3_key' = [s3_key EXCEPT ![w] = VanillaKey(req[w].version)]
                    /\ Goto(w, "head")
               ELSE /\ Finish(w, RetNone("metadata_malformed"))
                    /\ UNCHANGED <<s3_key, url>>

\* version_data.get('builds') is truthy
HasBuilds(d) == "builds" \in DOMAIN d /\ d.builds # <<>>

\* _get_papermc_jar: the builds request up to _download_and_cache.
BuildsFetch(w) ==
    /\ pc[w] = "builds"
    /\ UNCHANGED bucket_exists
    /\ UNCHANGED <<req, written, fdLive, hit0, objects, localFiles, version_manifest,
                   calls, downloads, uploads>>
    /\ \/ \E f \in {"connection_error", "timeout"} :
            /\ Logged(w, "builds", f)
            /\ Finish(w, RetNone("builds_fetch_failed"))
            /\ UNCHANGED <<s3_key, url>>
       \/ /\ Logged(w, "builds", "not_json")
          /\ NotJson(w, "builds_not_json")
          /\ UNCHANGED <<s3_key, url>>
       \/ \E d \in PaperDocs :
            /\ LoggedDoc(w, "builds", d)
            /\ IF HasBuilds(d)
               THEN LET target_build == TargetBuild(d.builds, req[w].build) IN
                    /\ url' = [url EXCEPT ![w] = PaperUrl(req[w].version, target_build)]
                    /\ s3_key' = [s3_key EXCEPT ![w] = PaperKey(req[w].version, target_build)]
                    /\ Goto(w, "head")
               ELSE /\ Finish(w, RetNone("no_builds"))
                    /\ UNCHANGED <<s3_key, url>>

\* -------------------------------------------------------- _download_and_cache
\* Mutation of _s3_file_exists: only a 404 counts as absent, any other error as present.
s3_file_exists_unless_404(outcome) == outcome # "not_found"

\* Mutation of _s3_file_exists: the check always answers False.
s3_file_exists_never(outcome) == FALSE

\* _s3_file_exists: True when head_object answers, False on any ClientError.
s3_file_exists(outcome) == outcome = "found"

\* Mutation of _upload_to_s3: the ClientError is swallowed and True returned.
upload_to_s3_always(outcome) == TRUE

\* Mutation of _upload_to_s3: False is returned whatever upload_file did.
upload_to_s3_never(outcome) == FALSE

\* _upload_to_s3: True when upload_file returns, False on ClientError.
upload_to_s3(outcome) == outcome = "ok"

\* What head_object can answer for key k in the current bucket.
HeadOutcomes(k) == (IF k \in DOMAIN objects THEN {"found"} ELSE {"not_found"}) \cup StoreErrors

\* _download_and_cache step 1: if self._s3_file_exists(s3_key): return s3_key
HeadObject(w) ==
    /\ pc[w] = "head"
    /\ UNCHANGED bucket_exists
    /\ \E o \in HeadOutcomes(s3_key[w]) :
        /\ Logged(w, "head_object", o)
        /\ IF s3_file_exists(o)
           THEN Finish(w, RetKey(s3_key[w], "hit"))
           ELSE Goto(w, "download")
    /\ UNCHANGED <<req, s3_key, url, written, fdLive, hit0, objects, localFiles,
                   version_manifest, calls, downloads, uploads>>

\* _download_and_cache step 2: requests.get(url, stream=True, timeout=300),
\* raise_for_status() and open(local_temp_path, 'wb').
DownloadStart(w) ==
    /\ pc[w] = "download"
    /\ UNCHANGED bucket_exists
    /\ \/ \E f \in HttpFailures :
            /\ Logged(w, "download", f)
            /\ Goto(w, "cleanup")
            /\ UNCHANGED <<written, fdLive, localFiles, downloads>>
       \/ /\ Logged(w, "download", "ok")
          /\ downloads' = Incr(downloads, s3_key[w])
          /\ localFiles' = Put(localFiles, PathOf(w), {})
          /\ written' = [written EXCEPT ![w] = 0]
          /\ fdLive' = [fdLive EXCEPT ![w] = TRUE]
          /\ Goto(w, "stream")
    /\ UNCHANGED <<req, s3_key, url, hit0, objects, version_manifest, calls, uploads>>

\* for chunk in response.iter_content(chunk_size=8192): f.write(chunk)
StreamChunk(w) ==
    /\ pc[w] = "stream"
    /\ UNCHANGED bucket_exists
    /\ \/ /\ Logged(w, "stream", "chunk_error")
          /\ written' = [written EXCEPT ![w] = 0]
          /\ fdLive' = [fdLive EXCEPT ![w] = FALSE]
          /\ Goto(w, "cleanup")
          /\ UNCHANGED localFiles
       \/ LET i == written[w] + 1 IN
          /\ localFiles' = IF fdLive[w]
                           THEN Put(localFiles, PathOf(w), localFiles[PathOf(w)] \cup {i})
                           ELSE localFiles
          /\ IF i = NChunks
             THEN /\ written' = [written EXCEPT ![w] = 0]
                  /\ fdLive' = [fdLive EXCEPT ![w] = FALSE]
                  /\ Goto(w, "upload")
             ELSE /\ written' = [written EXCEPT ![w] = i]
                  /\ Goto(w, "stream")
                  /\ UNCHANGED fdLive
          /\ UNCHANGED log
    /\ UNCHANGED <<req, s3_key, url, hit0, objects, version_manifest, calls, downloads, uploads>>

\* Mutation of the cleanup: the partial file is never found, so never removed.
path_exists_never(path) == FALSE

\* local_temp_path.exists()
path_exists(path) == path \in DOMAIN localFiles

\* except RequestException: if local_temp_path.exists(): ...
CleanupCheck(w) ==
    /\ pc[w] = "cleanup"
    /\ UNCHANGED bucket_exists
    /\ IF path_exists(PathOf(w))
       THEN Goto(w, "cleanup_rm")
       ELSE Finish(w, RetNone("download_failed"))
    /\ UNCHANGED <<req, s3_key, url, written, fdLive, log, hit0, objects, localFiles,
                   version_manifest, calls, downloads, uploads>>

\* ... os.remove(local_temp_path); return None
CleanupRemove(w) ==
    /\ pc[w] = "cleanup_rm"
    /\ UNCHANGED bucket_exists
    /\ IF PathOf(w) \in DOMAIN localFiles
       THEN /\ Removed(PathOf(w))
            /\ Finish(w, RetNone("download_failed"))
       ELSE /\ Finish(w, Raised("FileNotFoundError", "cleanup_remove"))
            /\ UNCHANGED <<localFiles, fdLive>>
    /\ UNCHANGED <<req, s3_key, url, written, log, hit0, objects, version_manifest,
                   calls, downloads, uploads>>

\* _download_and_cache step 3: if self._upload_to_s3(local_temp_path, s3_key)
Upload(w) ==
    /\ pc[w] = "upload"
    /\ UNCHANGED bucket_exists
    /\ IF PathOf(w) \notin DOMAIN localFiles
       THEN \* upload_file cannot open the file: not a ClientError, so not caught
            /\ Logged(w, "upload", "no_local_file")
            /\ Finish(w, Raised("FileNotFoundError", "upload_missing_file"))
            /\ UNCHANGED <<objects, uploads>>
       ELSE \E o \in {"ok"} \cup StoreErrors :
            /\ Logged(w, "upload", o)
            /\ IF o = "ok"
               THEN /\ objects' = Put(objects, s3_key[w], localFiles[PathOf(w)])
                    /\ uploads' = Incr(uploads, s3_key[w])
               ELSE UNCHANGED <<objects, uploads>>
            /\ IF upload_to_s3(o)
               THEN Goto(w, "rm_local")
               ELSE Finish(w, RetNone("upload_failed"))
    /\ UNCHANGED <<req, s3_key, url, written, fdLive, hit0, localFiles, version_manifest,
                   calls, downloads>>

\* os.remove(local_temp_path); return s3_key
RemoveLocal(w) ==
    /\ pc[w] = "rm_local"
    /\ UNCHANGED bucket_exists
    /\ IF PathOf(w) \in DOMAIN localFiles
       THEN /\ Removed(PathOf(w))
            /\ Finish(w, RetKey(s3_key[w], "populated"))
       ELSE /\ Finish(w, Raised("FileNotFoundError", "remove_after_upload"))
            /\ UNCHANGED <<localFiles, fdLive>>
    /\ UNCHANGED <<req, s3_key, url, written, log, hit0, objects, version_manifest,
                   calls, downloads, uploads>>

\* --------------------------------------------------------- get_jar_direct_url
\* Keys a caller may ask a URL for (the engine does not check them).
PresignKeys == {VanillaKey(<<"1.20.1">>), <<"no", "/", "such.jar">>}

\* The URL generate_presigned_url computes for key k and expires_in.
PresignedUrl(k, expires_in) == <<"https://s3/", "bucket", "/">> \o k \o <<"?X-Amz-Expires=">> \o IntToStr(expires_in)

\* Mutation of get_jar_direct_url: a presign failure is not caught.
get_jar_direct_url_raises(outcome, k, expires_in) ==
    IF outcome = "ok" THEN RetUrl(PresignedUrl(k, expires_in)) ELSE Raised("Exception", "presign")

\* try: return generate_presigned_url(...)  except Exception: return ""
get_jar_direct_url(outcome, k, expires_in) ==
    IF outcome = "ok" THEN RetUrl(PresignedUrl(k, expires_in)) ELSE RetUrl(<<>>)

\* get_jar_direct_url(s3_key, expires_in=3600)
Presign(w) ==
    /\ pc[w] = "idle"
    /\ UNCHANGED bucket_exists
    /\ calls < MaxCalls
    /\ \E k \in PresignKeys, o \in {"ok", "error"} :
        /\ req' = [req EXCEPT ![w] = [op |-> "get_jar_direct_url", platform |-> "",
                                      version |-> <<>>, build |-> <<>>, key |-> k]]
        /\ log' = [log EXCEPT ![w] = <<Ev("presign", o, <<>>)>>]
        /\ Finish(w, get_jar_direct_url(o, k, 3600))
    /\ calls' = calls + 1
    /\ UNCHANGED <<s3_key, url, written, fdLive, hit0, objects, localFiles,
                   version_manifest, downloads, uploads>>

\* The caller takes the result; the worker is free for the next request.
Return(w) ==
    /\ pc[w] = "done"
    /\ UNCHANGED bucket_exists
    /\ pc' = [pc EXCEPT ![w] = "idle"]
    /\ req' = [req EXCEPT ![w] = NoReq]
    /\ s3_key' = [s3_key EXCEPT ![w] = <<>>]
    /\ url' = [url EXCEPT ![w] = <<>>]
    /\ result' = [result EXCEPT ![w] = NoResult]
    /\ log' = [log EXCEPT ![w] = <<>>]
    /\ hit0' = [hit0 EXCEPT ![w] = FALSE]
    /\ UNCHANGED <<written, fdLive, objects, localFiles, version_manifest, calls,
                   downloads, uploads>>

\* Worker w's existence check was answered with a store error.
HeadErred(w) == \E i \in DOMAIN log[w] :
    log[w][i].call = "head_object" /\ log[w][i].outcome \in StoreErrors

\* No finished call is waiting for its result to be taken.
Quiet == \A x \in Workers : pc[x] # "done"

\* Requests are served by independent workers whose steps interleave freely.
\* Handing a finished call's result to its caller touches nothing shared, so
\* it is taken before any other step.
Next ==
    \E w \in Workers :
        \/ Quiet /\ Call(w)
        \/ Quiet /\ ManifestFetch(w)
        \/ Quiet /\ DetailFetch(w)
        \/ Quiet /\ BuildsFetch(w)
        \/ Quiet /\ HeadObject(w)
        \/ Quiet /\ DownloadStart(w)
        \/ Quiet /\ StreamChunk(w)
        \/ Quiet /\ CleanupCheck(w)
        \/ Quiet /\ CleanupRemove(w)
        \/ Quiet /\ Upload(w)
        \/ Quiet /\ RemoveLocal(w)
        \/ Quiet /\ Presign(w)
        \/ Return(w)

Spec == Init /\ [][Next]_vars

\* The same engine when no two calls overlap: a worker steps only while every
\* other worker is between calls, its last result taken.
Alone(w) == \A x \in Workers \ {w} : pc[x] = "idle"

NextSeq ==
    \E w \in Workers :
        \/ Alone(w) /\ Call(w)
        \/ Alone(w) /\ ManifestFetch(w)
        \/ Alone(w) /\ DetailFetch(w)
        \/ Alone(w) /\ BuildsFetch(w)
        \/ Alone(w) /\ HeadObject(w)
        \/ Alone(w) /\ DownloadStart(w)
        \/ Alone(w) /\ StreamChunk(w)
        \/ Alone(w) /\ CleanupCheck(w)
        \/ Alone(w) /\ CleanupRemove(w)
        \/ Alone(w) /\ Upload(w)
        \/ Alone(w) /\ RemoveLocal(w)
        \/ Alone(w) /\ Presign(w)
        \/ Alone(w) /\ Return(w)

SpecSeq == Init /\ [][NextSeq]_vars

\* ----------------------------------------- calls whose external calls succeed
\* Outcomes of an external call that are a failure of the origin or the store.
FailureOutcomes == HttpFailures \cup StoreErrors \cup {"timeout", "not_json", "chunk_error"}

\* The step of worker w was not answered with an origin or store failure.
Answered(w) ==
    \/ log'[w] = log[w]
    \/ log'[w] = <<>>
    \/ log'[w][Len(log'[w])].outcome \notin FailureOutcomes

\* Overlapping calls, one per worker, in a run where every origin request and
\* every store call is answered without error; results are not taken, so the
\* results of both calls can be compared.
NextRace ==
    \E w \in Workers :
        \/ Call(w) /\ Answered(w)
        \/ ManifestFetch(w) /\ Answered(w)
        \/ DetailFetch(w) /\ Answered(w)
        \/ BuildsFetch(w) /\ Answered(w)
        \/ HeadObject(w) /\ Answered(w)
        \/ DownloadStart(w) /\ Answered(w)
        \/ StreamChunk(w) /\ Answered(w)
        \/ Upload(w) /\ Answered(w)
        \/ RemoveLocal(w) /\ Answered(w)

SpecRace == Init /\ [][NextRace]_vars

\* ------------------------------------------ runs for one key, one call more
\* Forge calls only (one key, no resolution request), with one call more than
\* the budget of the other specifications, and with every existence check
\* answered by the store: no run takes a store error for a miss.
CallForge(w) ==
    /\ calls < MaxCalls + 1
    /\ calls' = calls + 1
    /\ Dispatch(w)
    /\ req'[w].platform = "forge"

NextDisk ==
    \E w \in Workers :
        \/ Quiet /\ CallForge(w)
        \/ Quiet /\ HeadObject(w) /\ ~HeadErred(w)'
        \/ Quiet /\ DownloadStart(w)
        \/ Quiet /\ StreamChunk(w)
        \/ Quiet /\ CleanupCheck(w)
        \/ Quiet /\ CleanupRemove(w)
        \/ Quiet /\ Upload(w)
        \/ Quiet /\ RemoveLocal(w)
        \/ Return(w)

SpecDisk == Init /\ [][NextDisk]_vars

\* ------------------------------------------------------ key construction alone
\* The key and the local file name are computed from the arguments and the
\* builds list only; here they are computed for two requests side by side.
\* Platform arguments in several letter cases.
KeyPlatformArgs == {"vanilla", "VANILLA", "Paper", "paper", "forge", "Forge", "NeoForge", "bukkit"}
\* Version arguments as a caller may send them: any string, "/" and "_" included.
KeyVersionArgs == {<<"1.20.1">>, <<"a", "/", "b">>, <<"a", "_", "b">>}
\* Builds documents with a non-empty list.
KeyPaperDocs == {[builds |-> <<5, 7>>], [builds |-> <<7, 12>>]}

\* The s3_key local variable that get_jar_s3_key's branch builds for the
\* arguments, given the builds list the Paper endpoint answered (<<>> when the
\* platform is unsupported and no key is built).
KeyOf(platform, version, build, builds) ==
    LET branch == get_jar_s3_key(platform) IN
    CASE branch = "vanilla" -> VanillaKey(version)
      [] branch = "paper" -> PaperKey(version, TargetBuild(builds, build))
      [] branch = "forge" -> MavenKey("Forge", version)
      [] branch = "neoforge" -> MavenKey("NeoForge", version)
      [] OTHER -> <<>>

\* Requests with the builds document a Paper request is answered with.
KeyRequests ==
    { [req |-> [op |-> "get_jar_s3_key", platform |-> p, version |-> v, build |-> b,
                key |-> <<>>],
       log |-> IF Lower(p) = "paper" THEN <<Ev("builds", "ok", <<d>>)>> ELSE <<>>] :
        p \in KeyPlatformArgs, v \in KeyVersionArgs, b \in BuildArgs, d \in KeyPaperDocs }

InitKeys ==
    /\ pc = [w \in Workers |-> "idle"]
    /\ \E f \in [Workers -> KeyRequests] :
        /\ req = [w \in Workers |-> f[w].req]
        /\ log = [w \in Workers |-> f[w].log]
    /\ s3_key = [w \in Workers |-> <<>>]
    /\ url = [w \in Workers |-> <<>>]
    /\ written = [w \in Workers |-> 0]
    /\ fdLive = [w \in Workers |-> FALSE]
    /\ result = [w \in Workers |-> NoResult]
    /\ hit0 = [w \in Workers |-> FALSE]
    /\ objects = <<>>
    /\ localFiles = <<>>
    /\ version_manifest = <<>>
    /\ calls = 0
    /\ downloads = <<>>
    /\ uploads = <<>>
    /\ bucket_exists = TRUE

\* The key of worker w's request is built, and with it the local file is
\* opened as _download_and_cache opens it.
ComputeKey(w) ==
    /\ pc[w] = "idle"
    /\ UNCHANGED bucket_exists
    /\ LET builds == IF log[w] = <<>> THEN <<>> ELSE log[w][1].body[1].builds
           k == KeyOf(req[w].platform, req[w].version, req[w].build, builds)
       IN  /\ s3_key' = [s3_key EXCEPT ![w] = k]
           /\ IF k = <<>>
              THEN /\ Finish(w, RetNone("unsupported_platform"))
                   /\ UNCHANGED localFiles
              ELSE /\ Finish(w, RetKey(k, "computed"))
                   /\ localFiles' = Put(localFiles, LocalTempPath(k), {})
    /\ UNCHANGED <<req, url, written, fdLive, log, hit0, objects, version_manifest,
                   calls, downloads, uploads>>

NextKeys == \E w \in Workers : ComputeKey(w)

SpecKeys == InitKeys /\ [][NextKeys]_vars

\* --------------------------------------------------------------- __init__
\* Error codes head_bucket may answer with besides "bucket missing".
HeadBucketErrors == {"403", "500"}
\* Error codes create_bucket may answer with whether or not the bucket exists.
CreateBucketErrors == {"AccessDenied"}

\* What head_bucket can answer: the bucket, one of the two codes the
\* constructor reads as "missing", or another ClientError.
HeadBucketOutcomes ==
    (IF bucket_exists THEN {"found"} ELSE {"404", "NoSuchBucket"}) \cup HeadBucketErrors

\* What create_bucket can answer: the store refuses to create a bucket the
\* caller already owns with the ClientError BucketAlreadyOwnedByYou.
CreateBucketOutcomes ==
    (IF bucket_exists THEN {"BucketAlreadyOwnedByYou"} ELSE {"ok"}) \cup CreateBucketErrors

\* The state before any engine has been constructed: the bucket may be absent.
InitCtor ==
    /\ pc = [w \in Workers |-> "idle"]
    /\ req = [w \in Workers |-> NoReq]
    /\ s3_key = [w \in Workers |-> <<>>]
    /\ url = [w \in Workers |-> <<>>]
    /\ written = [w \in Workers |-> 0]
    /\ fdLive = [w \in Workers |-> FALSE]
    /\ result = [w \in Workers |-> NoResult]
    /\ log = [w \in Workers |-> <<>>]
    /\ hit0 = [w \in Workers |-> FALSE]
    /\ objects = <<>>
    /\ localFiles = <<>>
    /\ version_manifest = <<>>
    /\ calls = 0
    /\ downloads = <<>>
    /\ uploads = <<>>
    /\ bucket_exists \in BOOLEAN

\* __init__ returned: the engine instance is constructed.
Constructed(why) == [kind |-> "engine", val |-> <<>>, why |-> why]

\* MinecraftJarCache(...): the fields are set (lines 23-32), no store call yet.
Construct(w) ==
    /\ pc[w] = "idle"
    /\ calls < MaxCalls
    /\ calls' = calls + 1
    /\ req' = [req EXCEPT ![w] = [op |-> "__init__", platform |-> "", version |-> <<>>,
                                  build |-> <<>>, key |-> <<>>]]
    /\ log' = [log EXCEPT ![w] = <<>>]
    /\ Goto(w, "head_bucket")
    /\ UNCHANGED <<s3_key, url, written, fdLive, hit0, objects, localFiles,
                   version_manifest, downloads, uploads, bucket_exists>>

\* try: head_bucket  except ClientError: 404 / NoSuchBucket -> create, else raise
HeadBucket(w) ==
    /\ pc[w] = "head_bucket"
    /\ \E o \in HeadBucketOutcomes :
        /\ Logged(w, "head_bucket", o)
        /\ IF o = "found" THEN Finish(w, Constructed("bucket_found"))
           ELSE IF o = "404" \/ o = "NoSuchBucket" THEN Goto(w, "create_bucket")
           ELSE Finish(w, Raised("ClientError", o))
    /\ UNCHANGED <<req, s3_key, url, written, fdLive, hit0, objects, localFiles,
                   version_manifest, calls, downloads, uploads, bucket_exists>>

\* try: create_bucket  except ClientError: print, raise
CreateBucket(w) ==
    /\ pc[w] = "create_bucket"
    /\ \E o \in CreateBucketOutcomes :
        /\ Logged(w, "create_bucket", o)
        /\ IF o = "ok"
           THEN /\ bucket_exists' = TRUE
                /\ Finish(w, Constructed("bucket_created"))
           ELSE /\ UNCHANGED bucket_exists
                /\ Finish(w, Raised("ClientError", o))
    /\ UNCHANGED <<req, s3_key, url, written, fdLive, hit0, objects, localFiles,
                   version_manifest, calls, downloads, uploads>>

\* The view constructs one engine per request; constructions of concurrent
\* requests interleave.
NextCtor ==
    \E w \in Workers :
        \/ Construct(w)
        \/ HeadBucket(w)
        \/ CreateBucket(w)
        \/ Return(w)

SpecCtor == InitCtor /\ [][NextCtor]_vars

\* ================================================================== claims
\* Requests the engine sends to an origin (Mojang, PaperMC, Maven).
OriginCalls == {"manifest", "detail", "builds", "download"}

\* The external calls worker w's current call has made so far.
CallsIn(w) == {log[w][i].call : i \in DOMAIN log[w]}

IsGet(w) == req[w].op = "get_jar_s3_key"

\* C1: a call whose request key was already in the bucket when it began (and
\* whose existence check, if made, is answered by the store) makes no origin
\* request and, once finished, has returned that key.
C1_CacheHitShortCircuit ==
    \A w \in Workers :
        (IsGet(w) /\ hit0[w] /\ ~HeadErred(w)) =>
            /\ CallsIn(w) \cap OriginCalls = {}
            /\ pc[w] = "done" =>
                 /\ result[w].kind = "key"
                 /\ result[w].val \in RequestKeys(req[w].platform, req[w].version, req[w].build)

\* C1 boundary case: the Vanilla object was stored when the call began, the
\* call asked the origin for the detail document, that request failed, and the
\* call returned None without an existence check.
C1_Witness ==
    \E w \in Workers :
        /\ pc[w] = "done" /\ IsGet(w) /\ hit0[w]
        /\ Lower(req[w].platform) = "vanilla"
        /\ result[w] = RetNone("detail_fetch_failed")
        /\ "head_object" \notin CallsIn(w)

\* C2: every key a finished call returned is in the bucket, and the call saw
\* either the existence check succeed or its own upload succeed.
C2_ReturnedKeyIsStored ==
    \A w \in Workers :
        (pc[w] = "done" /\ IsGet(w) /\ result[w].kind = "key") =>
            /\ result[w].val = s3_key[w]
            /\ result[w].val \in DOMAIN objects
            /\ \E i \in DOMAIN log[w] :
                 \/ log[w][i].call = "head_object" /\ log[w][i].outcome = "found"
                 \/ log[w][i].call = "upload" /\ log[w][i].outcome = "ok"

\* C2 witness: a call returned a key it populated itself while the other
\* worker's call for the same key is still in its pipeline.
C2_Witness ==
    \E w \in Workers, x \in Workers :
        /\ w # x
        /\ pc[w] = "done" /\ result[w] = RetKey(s3_key[w], "populated")
        /\ s3_key[x] = s3_key[w] /\ pc[x] \in {"download", "stream", "upload"}

\* C3 as stated: no key is downloaded from the origin more than once.
C3_FetchAtMostOnce == \A k \in DOMAIN downloads : downloads[k] <= 1

\* Positions in worker w's trace of artifact download requests.
DownloadIdx(w) == {i \in DOMAIN log[w] : log[w][i].call = "download"}

\* C3 amended: one call requests the artifact at most once, and only directly
\* after its own existence check failed to report the object (absent, or a
\* store error); a call whose existence check reports the object downloads nothing.
C3_DownloadOnlyAfterMiss ==
    \A w \in Workers :
        /\ Cardinality(DownloadIdx(w)) <= 1
        /\ \A i \in DownloadIdx(w) :
             /\ i > 1
             /\ log[w][i - 1].call = "head_object"
             /\ log[w][i - 1].outcome # "found"
        /\ (\E i \in DOMAIN log[w] : log[w][i].call = "head_object" /\ log[w][i].outcome = "found")
             => DownloadIdx(w) = {}

\* C3 witness: a key was downloaded once and populated, and a later call for it
\* finished as a hit without a download.
C3_Witness ==
    \E w \in Workers :
        /\ pc[w] = "done" /\ result[w] = RetKey(s3_key[w], "hit")
        /\ Count(downloads, s3_key[w]) = 1
        /\ Count(uploads, s3_key[w]) = 1
        /\ DownloadIdx(w) = {}

\* C4: a call with a platform outside vanilla/paper/forge/neoforge (after
\* lower-casing) ends at once with None, has made no external call, and leaves
\* bucket, local directory and manifest cache as they were.
C4_UnsupportedPlatform ==
    [][\A w \in Workers :
         (/\ pc[w] = "idle" /\ pc'[w] # "idle"
          /\ req'[w].op = "get_jar_s3_key"
          /\ Lower(req'[w].platform) \notin SupportedPlatforms)
         => /\ pc'[w] = "done"
            /\ result'[w].kind = "null"
            /\ log'[w] = <<>>
            /\ UNCHANGED <<objects, localFiles, version_manifest, downloads, uploads>>]_vars

\* C4 witness: an unsupported platform was requested and the call is over.
C4_Witness ==
    \E w \in Workers :
        /\ pc[w] = "done" /\ IsGet(w)
        /\ req[w].platform = "bukkit"
        /\ result[w].kind = "null" /\ log[w] = <<>>

\* C5: no call ends with an exception leaving get_jar_s3_key.
C5_NoExceptionEscapes ==
    \A w \in Workers : IsGet(w) => result[w].kind # "raised"

\* C5 boundary case: the call that ended with the exception had been given a
\* manifest whose first entry has no "id".
C5_Witness ==
    \E w \in Workers : pc[w] = "done" /\ result[w] = Raised("KeyError", "manifest_entry_without_id")

\* The artifact download of worker w's call failed: at the request, or while
\* the chunks were streamed.
DownloadFailed(w) ==
    \E i \in DOMAIN log[w] :
        \/ log[w][i].call = "download" /\ log[w][i].outcome \in HttpFailures
        \/ log[w][i].call = "stream" /\ log[w][i].outcome = "chunk_error"

\* C6: a call whose artifact download failed returns None without attempting an
\* upload, none of its steps from the failure on changes the bucket, and when
\* it has returned no local file for its key is left.
C6_PipelineCleanup ==
    /\ [](\A w \in Workers :
            DownloadFailed(w) =>
                /\ "upload" \notin CallsIn(w)
                /\ pc[w] \in {"cleanup", "cleanup_rm", "done"}
                /\ pc[w] = "done" =>
                     /\ result[w].kind = "null"
                     /\ LocalTempPath(s3_key[w]) \notin DOMAIN localFiles)
    /\ [][\A w \in Workers :
            (pc[w] # "done" /\ DownloadFailed(w)') => UNCHANGED <<objects, uploads>>]_vars

\* C6 witness: the download broke after a chunk had been written, and the call
\* is over.
C6_Witness ==
    \E w \in Workers :
        /\ pc[w] = "done" /\ result[w].kind = "null"
        /\ \E i \in DOMAIN log[w] : log[w][i].call = "stream" /\ log[w][i].outcome = "chunk_error"
        /\ Count(downloads, s3_key[w]) = 1

\* Every entry of the manifest has an id and none is the requested version.
VersionAbsent(doc, version) ==
    LET es == IF "versions" \in DOMAIN doc THEN doc.versions ELSE <<>> IN
    \A i \in DOMAIN es : "id" \in DOMAIN es[i] /\ es[i].id # version

\* The detail document has no downloads.server.url.
LacksServerUrl(d) ==
    \/ "downloads" \notin DOMAIN d
    \/ "server" \notin DOMAIN d.downloads
    \/ "url" \notin DOMAIN d.downloads.server

\* Worker w's Vanilla call met a resolution failure: the manifest request
\* failed, the manifest it read has no entry for the version, or the detail
\* document it read has no server URL.
ResolutionFailed(w) ==
    /\ IsGet(w)
    /\ Lower(req[w].platform) = "vanilla"
    /\ \E i \in DOMAIN log[w] :
         LET e == log[w][i] IN
         \/ e.call = "manifest" /\ e.outcome \in HttpFailures
         \/ e.call \in {"manifest", "manifest_cached"} /\ e.outcome = "ok"
              /\ VersionAbsent(e.body[1], req[w].version)
         \/ e.call = "detail" /\ e.outcome = "ok" /\ LacksServerUrl(e.body[1])

\* C7: a Vanilla call that met a resolution failure has returned None, has made
\* no existence check, artifact download or upload, and the step on which it
\* ended left bucket and local directory unchanged.
C7_ResolutionFailure ==
    /\ [](\A w \in Workers :
            ResolutionFailed(w) =>
                /\ pc[w] = "done"
                /\ result[w].kind = "null"
                /\ CallsIn(w) \cap {"head_object", "download", "upload"} = {})
    /\ [][\A w \in Workers :
            (pc[w] # "done" /\ pc'[w] = "done" /\ ResolutionFailed(w)')
                => UNCHANGED <<objects, localFiles, downloads, uploads>>]_vars

\* C7 witness: the version was looked up in an already cached manifest that
\* does not list it.
C7_Witness ==
    \E w \in Workers :
        /\ pc[w] = "done" /\ ResolutionFailed(w)
        /\ log[w][1].call = "manifest_cached"

\* C8: a call whose existence check was answered with a store error does not go
\* on to download the artifact.
C8_StoreErrorIsNotMiss ==
    \A w \in Workers : HeadErred(w) => DownloadIdx(w) = {}

\* C8 boundary case: the existence check was answered with access denied and
\* the call went on to download and upload the artifact.
C8_Witness ==
    \E w \in Workers :
        /\ HeadErred(w)
        /\ \E i \in DOMAIN log[w] : log[w][i].call = "upload" /\ log[w][i].outcome = "ok"

\* C9 as stated: no key is uploaded more than once.
C9_UploadedAtMostOnce == \A k \in DOMAIN uploads : uploads[k] <= 1

\* Worker w's existence check reported the object present.
HeadFound(w) == \E i \in DOMAIN log[w] :
    log[w][i].call = "head_object" /\ log[w][i].outcome = "found"

\* C9 amended: no step removes an object from the bucket, and an object is
\* written (again) only by a call whose own existence check did not report it.
C9_NeverDeleted ==
    [][/\ \A k \in DOMAIN objects : k \in DOMAIN objects'
       /\ \A k \in DOMAIN objects' :
            Count(uploads', k) # Count(uploads, k) =>
                \E w \in Workers : pc[w] = "upload" /\ s3_key[w] = k /\ ~HeadFound(w)]_vars

\* C9 witness: an object is in the bucket that has been uploaded twice.
C9_Witness == \E k \in DOMAIN objects : Count(uploads, k) = 2

\* C10: a get_jar_direct_url call makes the presign call and nothing else, ends
\* with a string (the empty one when presigning failed), and leaves bucket,
\* local directory and manifest cache unchanged.
C10_PresignIndependence ==
    /\ [](\A w \in Workers :
            req[w].op = "get_jar_direct_url" =>
                /\ pc[w] = "done"
                /\ Len(log[w]) = 1 /\ log[w][1].call = "presign"
                /\ result[w].kind = "url"
                /\ log[w][1].outcome # "ok" => result[w].val = <<>>)
    /\ [][\A w \in Workers :
            (pc[w] = "idle" /\ req'[w].op = "get_jar_direct_url")
                => UNCHANGED <<objects, localFiles, version_manifest, downloads, uploads>>]_vars

\* C10 witness: presigning failed and the call returned the empty string.
C10_Witness ==
    \E w \in Workers :
        /\ pc[w] = "done" /\ req[w].op = "get_jar_direct_url"
        /\ log[w][1].outcome = "error"
        /\ result[w] = RetUrl(<<>>)

\* Worker w's Paper call asked for build "latest" and read a builds document
\* with a non-empty list.
PaperLatestResolved(w) ==
    /\ IsGet(w)
    /\ Lower(req[w].platform) = "paper"
    /\ req[w].build = <<"latest">>
    /\ \E i \in DOMAIN log[w] :
         log[w][i].call = "builds" /\ log[w][i].outcome = "ok" /\ HasBuilds(log[w][i].body[1])

\* The last element of the builds list worker w's call read.
LastBuild(w) ==
    LET i == CHOOSE i \in DOMAIN log[w] : log[w][i].call = "builds"
        builds == log[w][i].body[1].builds
    IN  builds[Len(builds)]

\* The key a Paper request would have if "latest" were used as the build.
LatestKey(version) == PaperKey(version, JStr(<<"latest">>))

\* C11: a Paper call with build "latest" that read a non-empty builds list uses
\* the key paper/{version}/build-{b}.jar with b the last element of that list
\* for its existence check and upload and returns no other key; no key with
\* "latest" as the build is held by a call, downloaded, uploaded or stored.
C11_PaperLatestConcrete ==
    /\ \A w \in Workers :
         PaperLatestResolved(w) =>
            /\ s3_key[w] = <<"paper", "/">> \o req[w].version
                              \o <<"/", "build-">> \o IntToStr(LastBuild(w)) \o <<".jar">>
            /\ result[w].kind = "key" => result[w].val = s3_key[w]
    /\ \A w \in Workers, v \in VersionArgs :
         /\ s3_key[w] # LatestKey(v)
         /\ result[w].val # LatestKey(v)
    /\ \A v \in VersionArgs :
         LatestKey(v) \notin DOMAIN objects \cup DOMAIN downloads \cup DOMAIN uploads

\* C11 witness: a Paper call for build "latest" read the builds <<5, 7>>,
\* populated paper/1.20.1/build-7.jar and returned it.
C11_Witness ==
    \E w \in Workers :
        /\ pc[w] = "done" /\ PaperLatestResolved(w)
        /\ result[w] = RetKey(<<"paper", "/", "1.20.1", "/", "build-", "7", ".jar">>, "populated")
        /\ result[w].val \in DOMAIN objects

\* Worker w's call made the external call `call` and it ended with `outcome`.
Did(w, call, outcome) ==
    \E i \in DOMAIN log[w] : log[w][i].call = call /\ log[w][i].outcome = outcome

\* Worker w's call found its key absent, was answered by the artifact download
\* and saw upload_file return: resolution, download and upload all succeeded.
PopulatedByCall(w) ==
    /\ IsGet(w)
    /\ Did(w, "head_object", "not_found")
    /\ Did(w, "download", "ok")
    /\ Did(w, "upload", "ok")

\* C12: a call that found its key absent and whose resolution, download and
\* upload all succeeded is at its last step or over; the bucket holds an object
\* at its key; once over it has returned that key (vanilla/{version}/server.jar
\* for Vanilla) and no local file for the key is left.
C12_EndToEndPopulation ==
    \A w \in Workers :
        PopulatedByCall(w) =>
            /\ pc[w] \in {"rm_local", "done"}
            /\ s3_key[w] \in DOMAIN objects
            /\ Lower(req[w].platform) = "vanilla" =>
                 s3_key[w] = <<"vanilla", "/">> \o req[w].version \o <<"/", "server.jar">>
            /\ pc[w] = "done" =>
                 /\ result[w].kind = "key"
                 /\ result[w].val = s3_key[w]
                 /\ LocalTempPath(s3_key[w]) \notin DOMAIN localFiles

\* C12 witness: a Vanilla call resolved the version, found the key absent,
\* downloaded and uploaded the jar, and returned vanilla/1.20.1/server.jar.
C12_Witness ==
    \E w \in Workers :
        /\ pc[w] = "done" /\ PopulatedByCall(w)
        /\ Did(w, "detail", "ok")
        /\ result[w] = RetKey(<<"vanilla", "/", "1.20.1", "/", "server.jar">>, "populated")
        /\ objects[result[w].val] = 1..NChunks
        /\ localFiles = <<>>

\* The build as it stands in worker w's key: the caller's string, or the last
\* element of the builds list when the caller asked for "latest".
ResolvedBuild(w) ==
    IF req[w].build = <<"latest">>
    THEN LET builds == log[w][1].body[1].builds IN IntToStr(builds[Len(builds)])
    ELSE req[w].build

\* The key the documented format gives for the request of worker w.
FormatKey(w) ==
    LET p == Lower(req[w].platform)
        v == req[w].version
    IN  CASE p = "vanilla" -> <<"vanilla", "/">> \o v \o <<"/", "server.jar">>
          [] p = "paper" -> <<"paper", "/">> \o v \o <<"/", "build-">> \o ResolvedBuild(w) \o <<".jar">>
          [] p \in {"forge", "neoforge"} ->
               <<p, "/">> \o v \o <<"/", p, "-">> \o v \o <<"-installer.jar">>
          [] OTHER -> <<>>

\* Worker w's key has been built.
Keyed(w) == pc[w] = "done" /\ result[w].kind = "key"

\* C13: the key built for a request is the documented format applied to the
\* lower-cased platform, the version and the resolved build; two requests that
\* agree on these three have the identical key, whatever the letter case of
\* the platform argument and whether the build was given or resolved.
C13_KeyDeterminism ==
    /\ \A w \in Workers : Keyed(w) => s3_key[w] = FormatKey(w)
    /\ \A w \in Workers, x \in Workers :
         (/\ Keyed(w) /\ Keyed(x)
          /\ Lower(req[w].platform) = Lower(req[x].platform)
          /\ req[w].version = req[x].version
          /\ Lower(req[w].platform) = "paper" => ResolvedBuild(w) = ResolvedBuild(x))
         => s3_key[w] = s3_key[x]

\* C13 witness: both keys are built; one request says "forge", the other
\* "Forge", and both have forge/1.20.1/forge-1.20.1-installer.jar.
C13_Witness ==
    /\ Keyed("w1") /\ Keyed("w2")
    /\ req["w1"].platform = "forge" /\ req["w2"].platform = "Forge"
    /\ s3_key["w1"] = <<"forge", "/", "1.20.1", "/", "forge", "-", "1.20.1", "-installer.jar">>
    /\ s3_key["w2"] = s3_key["w1"]

\* Worker w's construction ended with an exception.
CtorFailed(w) == pc[w] = "done" /\ req[w].op = "__init__" /\ result[w].kind = "raised"

\* C14: a construction fails only for a reason other than the bucket already
\* existing: none has failed on create_bucket being told that the bucket is
\* already there, so of two constructions that both found the bucket absent
\* neither fails because the other created it first.
C14_BucketInitIdempotent ==
    \A w \in Workers :
        CtorFailed(w) => ~Did(w, "create_bucket", "BucketAlreadyOwnedByYou")

\* C14 boundary case: two constructions found the bucket absent; one created
\* it, the other's create_bucket was refused and its construction raised.
C14_Witness ==
    \E w \in Workers, x \in Workers :
        /\ Did(w, "head_bucket", "404") /\ Did(x, "head_bucket", "404")
        /\ pc[w] = "done" /\ result[w] = Constructed("bucket_created")
        /\ CtorFailed(x) /\ result[x] = Raised("ClientError", "BucketAlreadyOwnedByYou")

\* C15: in runs where every origin and store call succeeds, a call that found
\* its key absent ends by returning its key, whatever an overlapping call for
\* the same key does to the shared local file.
C15_ConcurrentMissesSafe ==
    \A w \in Workers :
        (IsGet(w) /\ pc[w] = "done" /\ Did(w, "head_object", "not_found")) =>
            /\ result[w].kind = "key"
            /\ result[w].val = s3_key[w]

\* C15 boundary case: two calls for the same key both missed, downloaded and
\* uploaded; one removed the local file and returned the key, the other's
\* os.remove raised FileNotFoundError.
C15_Witness ==
    \E w \in Workers, x \in Workers :
        /\ s3_key[w] = s3_key[x]
        /\ PopulatedByCall(w) /\ PopulatedByCall(x)
        /\ pc[w] = "done" /\ result[w] = RetKey(s3_key[w], "populated")
        /\ pc[x] = "done" /\ result[x] = Raised("FileNotFoundError", "remove_after_upload")

\* The chunks of the complete origin artifact.
CompleteArtifact == 1..NChunks

\* C16: every object in the bucket holds all chunks of the origin artifact.
C16_OnlyCompleteArtifacts ==
    \A k \in DOMAIN objects : objects[k] = CompleteArtifact

\* C16 boundary case: both calls for a key are over, one returned the key, and
\* the object left in the bucket at that key lacks chunks: the upload read the
\* file after the other run had truncated it.
C16_Witness ==
    \E w \in Workers, x \in Workers :
        /\ w # x /\ pc[w] = "done" /\ pc[x] = "done"
        /\ s3_key[w] = s3_key[x]
        /\ result[w] = RetKey(s3_key[w], "populated")
        /\ objects[s3_key[w]] # CompleteArtifact

\* C17: two requests whose keys differ have different local file names.
C17_LocalNamesCollisionFree ==
    \A w \in Workers, x \in Workers :
        (Keyed(w) /\ Keyed(x) /\ s3_key[w] # s3_key[x]) =>
            LocalTempPath(s3_key[w]) # LocalTempPath(s3_key[x])

\* C17 boundary case: the versions "a/b" and "a_b" give the Forge keys
\* forge/a/b/forge-a/b-installer.jar and forge/a_b/forge-a_b-installer.jar, and
\* both runs opened the one file /tmp/jar_cache/forge_a_b_forge-a_b-installer.jar.
C17_Witness ==
    /\ Keyed("w1") /\ Keyed("w2")
    /\ s3_key["w1"] = <<"forge", "/", "a", "/", "b", "/", "forge", "-", "a", "/", "b",
                        "-installer.jar">>
    /\ s3_key["w2"] = <<"forge", "/", "a", "_", "b", "/", "forge", "-", "a", "_", "b",
                        "-installer.jar">>
    /\ DOMAIN localFiles =
         {<<"/tmp/jar_cache", "/", "forge", "_", "a", "_", "b", "_", "forge", "-", "a", "_", "b",
            "-installer.jar">>}

\* Worker w's call ran the pipeline (its key was built) and is over.
RunOver(w) == IsGet(w) /\ pc[w] = "done" /\ s3_key[w] # <<>>

ManifestIdx(w) == {i \in DOMAIN log[w] : log[w][i].call = "manifest"}

\* C19 as stated: the manifest is not requested by two lookups, and a manifest
\* that a lookup stored in the cache is not replaced: while the lookup runs, the
\* cache holds the body it was answered with.
C19_ManifestFetchedOnce ==
    /\ Cardinality({w \in Workers : ManifestIdx(w) # {}}) <= 1
    /\ \A w \in Workers : \A i \in ManifestIdx(w) :
         log[w][i].outcome = "ok" => version_manifest = log[w][i].body

\* C19 amended: a lookup requests the manifest at most once, as its first
\* external call, and only if it began while the cache was empty; a lookup that
\* begins once the cache holds a manifest reads that one and makes no manifest
\* request; the cache changes only by taking the body of an answered manifest
\* request and is never emptied.
C19_FetchedWhenCacheEmpty ==
    /\ [](\A w \in Workers :
            /\ ManifestIdx(w) \subseteq {1}
            /\ (log[w] # <<>> /\ log[w][1].call = "manifest_cached") => ManifestIdx(w) = {})
    /\ [][/\ \A w \in Workers :
               (pc[w] = "idle" /\ pc'[w] # "idle" /\ version_manifest # <<>>) =>
                   /\ pc'[w] # "manifest"
                   /\ req'[w].op = "get_jar_s3_key" /\ Lower(req'[w].platform) = "vanilla"
                        => log'[w] = <<Ev("manifest_cached", "ok", version_manifest)>>
          /\ version_manifest' # version_manifest =>
               \E w \in Workers :
                   /\ pc[w] = "manifest"
                   /\ log'[w] = <<Ev("manifest", "ok", version_manifest')>>]_vars

\* C19 witness: a lookup that began with the cache filled resolved the version
\* from the cached manifest, without a manifest request, and returned the key.
C19_Witness ==
    \E w \in Workers :
        /\ pc[w] = "done" /\ result[w].kind = "key"
        /\ log[w][1] = Ev("manifest_cached", "ok", version_manifest)
        /\ ManifestIdx(w) = {}

\* Positions in worker w's trace of upload attempts.
UploadIdx(w) == {i \in DOMAIN log[w] : log[w][i].call = "upload"}

\* The upload attempt of worker w's call was refused by the store.
UploadFailed(w) == \E i \in UploadIdx(w) : log[w][i].outcome \in StoreErrors

\* C20: a call makes at most one artifact download request and at most one
\* upload attempt; when the store refuses the upload, that attempt is the
\* call's last external call, the call is over with None, and the step of the
\* refused upload left the bucket as it was.
C20_SingleShotTransfer ==
    /\ [](\A w \in Workers :
            /\ Cardinality(DownloadIdx(w)) <= 1
            /\ Cardinality(UploadIdx(w)) <= 1
            /\ UploadFailed(w) =>
                 /\ UploadIdx(w) = {Len(log[w])}
                 /\ pc[w] = "done"
                 /\ result[w].kind = "null")
    /\ [][\A w \in Workers :
            (pc[w] = "upload" /\ UploadFailed(w)') => UNCHANGED <<objects, uploads>>]_vars

\* C20 witness: a call downloaded the artifact once, its one upload was
\* refused, it returned None and the bucket has no object at its key.
C20_Witness ==
    \E w \in Workers :
        /\ pc[w] = "done" /\ result[w] = RetNone("upload_failed")
        /\ Cardinality(DownloadIdx(w)) = 1 /\ UploadFailed(w)
        /\ s3_key[w] \notin DOMAIN objects

\* Worker w's call is for Forge or NeoForge.
IsMaven(w) == IsGet(w) /\ Lower(req[w].platform) \in {"forge", "neoforge"}

\* The installer URL the template gives for worker w's Forge or NeoForge request.
TemplateUrl(w) ==
    LET p == Lower(req[w].platform)
        v == req[w].version
        base == IF p = "forge"
                THEN <<"https://maven.minecraftforge.net/net/minecraftforge/forge/">>
                ELSE <<"https://maven.neoforged.net/releases/net/neoforged/neoforge/">>
    IN  base \o v \o <<"/", p, "-">> \o v \o <<"-installer.jar">>

\* C21: a Forge or NeoForge call is never at a discovery request and has made
\* none; its first external call is the existence check on its key; the only
\* origin request it makes is the artifact download, from the template URL,
\* directly after that existence check, and not when the check found the key.
C21_MavenOrdering ==
    \A w \in Workers :
        IsMaven(w) =>
            /\ pc[w] \notin {"manifest", "detail", "builds"}
            /\ CallsIn(w) \cap {"manifest", "manifest_cached", "detail", "builds"} = {}
            /\ CallsIn(w) \cap OriginCalls \subseteq {"download"}
            /\ log[w] # <<>> => log[w][1].call = "head_object"
            /\ url[w] = TemplateUrl(w)
            /\ \A i \in DownloadIdx(w) : i = 2 /\ log[w][1].outcome # "found"
            /\ HeadFound(w) => /\ Len(log[w]) = 1
                               /\ pc[w] = "done"

\* C21 witness: a NeoForge call checked its key, was told it is absent,
\* downloaded the installer from the template URL, uploaded it and returned.
C21_Witness ==
    \E w \in Workers :
        /\ IsMaven(w) /\ req[w].platform = "NeoForge"
        /\ pc[w] = "done" /\ result[w].why = "populated"
        /\ log[w][1] = Ev("head_object", "not_found", <<>>)
        /\ log[w][2] = Ev("download", "ok", <<>>)
        /\ url[w] = <<"https://maven.neoforged.net/releases/net/neoforged/neoforge/",
                      "1.20.1", "/", "neoforge", "-", "1.20.1", "-installer.jar">>

====
